---- MODULE Spec2Model ----
(***************************************************************************)
(* Model of sneslib's memory engine (src/src/memory/mod.rs): the region    *)
(* store (ROM, WRAM, optional SRAM), the mapping directives generated by   *)
(* MemoryMap::from_cartridge, their application by MemoryMap::map to the   *)
(* readable / writable decode tables, and MemoryMap::read / ::write.       *)
(*                                                                         *)
(* The decode tables have 2^24 slots.  The model keeps the slots whose     *)
(* bank is in ProbeBanks (the first and last bank of every bank range the  *)
(* source names, and the banks of the first ROM chunks in each quarter of  *)
(* the space) and whose bank offset is in ProbeOffsets (the first and last *)
(* byte of every range a directive can start or end at).  All addresses,   *)
(* lengths and directives keep their real values.                          *)
(***************************************************************************)
EXTENDS Integers, Sequences, FiniteSets, TLC

VARIABLES
    pc,         \* "new": cartridge loaded, from_cartridge not yet run;
                \* "ready": from_cartridge returned a MemoryMap;
                \* "panic": from_cartridge panicked, no MemoryMap exists
    cartridge,  \* Cartridge.rom: [len, seed] (bytes are ImageByte(seed, i))
    hint,       \* the Option<ROMType> handed to from_cartridge
    table,      \* MemoryMap.readable and MemoryMap.writable, slot by slot
                \* on ProbeAddrs: table[a] = [r |-> readable[a], w |-> writable[a]]
                \* (<< >> while no MemoryMap exists)
    rom,        \* MemoryMap.rom   : [len, cells]
    wram,       \* MemoryMap.wram  : [len, cells]
    sram,       \* MemoryMap.sram  : [some, len, cells]
    last,       \* the last call made on the MemoryMap and what it returned
    th,         \* concurrent clients: per thread, the call in progress
    hist,       \* concurrent clients: the atomic loads and stores made, in
                \* the order they were executed
    map_info,   \* the directive list handed to a call of map on its own
    a24,        \* the Address24 in hand and the operation that produced it
    cart_result \* the last call of Cartridge::new and its CartridgeResult

vars == <<pc, cartridge, hint, table, rom, wram, sram, last, th, hist,
          map_info, a24, cart_result>>

----------------------------------------------------------------------------
(* Bounds of the model *)

\* ROM images of 0..MaxRomChunks whole 32 KiB chunks are loaded (next to
\* the fixed lengths of ExtraRomLens).
MaxRomChunks == 4

\* Number of calls the concurrent clients make, all together.
MaxCalls == 2

----------------------------------------------------------------------------
(* Constants of the program *)

PAGE_SIZE == 64 * 1024
MAP_SIZE == 256 * PAGE_SIZE
OpenBus == \h55

\* 32 KiB, the LoROM granule
HalfPage == \h8000

----------------------------------------------------------------------------
(* Pointers into the regions: Option<*const AtomicU8> *)

None == [region |-> "None", cell |-> 0]
Some(r, c) == [region |-> r, cell |-> c]

----------------------------------------------------------------------------
(* What the model keeps of the 2^24 slots and of the regions' cells *)

ProbeBanks ==
    {q + i : q \in {\h00, \h40, \h80, \hC0},
             i \in (0..6) \cup {\h1F, \h20, \h2F, \h30, \h3D, \h3E, \h3F}}
ProbeOffsets == {\h0000, \h1FFF, \h2000, \h6000, \h7FFF, \h8000, \hFFFF}
ProbeAddrs == {b * PAGE_SIZE + o : b \in ProbeBanks, o \in ProbeOffsets}

\* a region cell is kept when some probed address can resolve to it: source
\* and destination of every directive are multiples of HalfPage apart
CellOffsets == {o % HalfPage : o \in ProbeOffsets}
ProbeCells(n) ==
    {c \in {k * HalfPage + o : k \in 0..(n \div HalfPage), o \in CellOffsets} : c < n}

\* the bytes of a cartridge image
ImageByte(seed, i) == (seed + 3 * (i \div HalfPage) + i) % 256

----------------------------------------------------------------------------
(* from_cartridge: region allocation *)

new_ram(n) == [len |-> n, cells |-> [c \in ProbeCells(n) |-> 0]]

NewRom(cart) ==
    [len |-> cart.len, cells |-> [c \in ProbeCells(cart.len) |-> ImageByte(cart.seed, c)]]

NoSram == [some |-> FALSE, len |-> 0, cells |-> << >>]

\* vec![None; MAP_SIZE], twice
EmptyTable == [a \in ProbeAddrs |-> [r |-> None, w |-> None]]

\* no MemoryMap, no tables
NoTable == << >>
NoRegion == [len |-> 0, cells |-> << >>]

----------------------------------------------------------------------------
(* from_cartridge: the mapping directives, in the order generated *)

Range(lo, hi) == [k \in 1..(hi - lo + 1) |-> lo + k - 1]
MapInfo(r, s, d, l) == [region |-> r, src |-> s, dst |-> d, len |-> l]

\* (lo..hi).step_by(n), as a sequence
StepBy(lo, hi, n) == [k \in 1..((hi - lo + n - 1) \div n) |-> lo + (k - 1) * n]

\* flat_map: the sequences of ss, one after the other
RECURSIVE Flatten(_)
Flatten(ss) == IF ss = <<>> THEN <<>> ELSE Head(ss) \o Flatten(Tail(ss))

\* WramInfo with the mirror in banks 0x80-0xBF left out
WramInfo_LowBanksOnly(wramLen) ==
    LET banks == Range(\h00, \h3F)
    IN [k \in 1..Len(banks) |-> MapInfo("WRAM", 0, banks[k] * 65536, \h2000)]
       \o << MapInfo("WRAM", 0, \h7E0000, wramLen) >>

\* $xx:0000-$xx:1FFF, then $7E-$7F
WramInfo(wramLen) ==
    LET banks == Range(\h00, \h3F) \o Range(\h80, \hBF)
    IN [k \in 1..Len(banks) |-> MapInfo("WRAM", 0, banks[k] * 65536, \h2000)]
       \o << MapInfo("WRAM", 0, \h7E0000, wramLen) >>

\* LoRomInfo with the bank used unmasked (i instead of i & 0x7F)
LoRomInfo_NoBankMask(romLen) ==
    LET banks == SelectSeq(Range(\h00, \h7D) \o Range(\h80, \hFF),
                           LAMBDA i : i * \h8000 < romLen)
    IN [k \in 1..Len(banks) |->
          MapInfo("ROM", banks[k] * \h8000, banks[k] * 65536 + \h8000, \h8000)]

LoRomInfo(romLen) ==
    LET banks == SelectSeq(Range(\h00, \h7D) \o Range(\h80, \hFF),
                           LAMBDA i : (i % 128) * \h8000 < romLen)
    IN [k \in 1..Len(banks) |->
          MapInfo("ROM", (banks[k] % 128) * \h8000, banks[k] * 65536 + \h8000, \h8000)]

LoRomSmallSramInfo(sramLen) ==
    LET banks == Range(\h70, \h7D) \o Range(\hF0, \hFF)
        dsts == Flatten([k \in 1..Len(banks) |->
                            StepBy(banks[k] * 65536, banks[k] * 65536 + \h8000, sramLen)])
    IN [k \in 1..Len(dsts) |-> MapInfo("SRAM", 0, dsts[k], sramLen)]

\* step_by over the chained ranges 0x700000..=0x7DFFFF and 0xF00000..=0xFFFFFF
LoRomLargeSramInfo(sramLen) ==
    LET steps == StepBy(0, \hE0000 + \h100000, sramLen)
    IN [k \in 1..Len(steps) |->
          MapInfo("SRAM", 0,
                  IF steps[k] < \hE0000 THEN \h700000 + steps[k]
                                        ELSE \hF00000 + (steps[k] - \hE0000),
                  sramLen)]

LoRomMirrorInfo(romLen) ==
    LET banks == SelectSeq(Range(\h40, \h7D) \o Range(\hC0, \hFF),
                           LAMBDA i : (i % 128) * \h8000 < romLen)
    IN [k \in 1..Len(banks) |->
          MapInfo("ROM", (banks[k] % 128) * \h8000, banks[k] * 65536, \h8000)]

\* HiRomInfo with the full banks running through 0x7F and 0xFF (over the
\* WRAM banks 0x7E-0x7F)
HiRomInfo_Through7F(romLen) ==
    LET upper == SelectSeq(Range(\h00, \h3F) \o Range(\h80, \hBF),
                           LAMBDA i : (i % 64) * 65536 + \h8000 < romLen)
        full == SelectSeq(Range(\h40, \h7F) \o Range(\hC0, \hFF),
                          LAMBDA i : (i % 64) * 65536 < romLen)
    IN [k \in 1..Len(upper) |->
          MapInfo("ROM", (upper[k] % 64) * 65536 + \h8000,
                  upper[k] * 65536 + \h8000, \h8000)]
       \o
       [k \in 1..Len(full) |->
          MapInfo("ROM", (full[k] % 64) * 65536, full[k] * 65536, \h10000)]

HiRomInfo(romLen) ==
    LET upper == SelectSeq(Range(\h00, \h3F) \o Range(\h80, \hBF),
                           LAMBDA i : (i % 64) * 65536 + \h8000 < romLen)
        full == SelectSeq(Range(\h40, \h7D) \o Range(\hC0, \hFF),
                          LAMBDA i : (i % 64) * 65536 < romLen)
    IN [k \in 1..Len(upper) |->
          MapInfo("ROM", (upper[k] % 64) * 65536 + \h8000,
                  upper[k] * 65536 + \h8000, \h8000)]
       \o
       [k \in 1..Len(full) |->
          MapInfo("ROM", (full[k] % 64) * 65536, full[k] * 65536, \h10000)]

HiRomSramInfo(sramLen) ==
    LET banks == Range(\h20, \h3F) \o Range(\hA0, \hBF)
        dsts == Flatten([k \in 1..Len(banks) |->
                            StepBy(banks[k] * 65536 + \h6000,
                                   banks[k] * 65536 + \h8000, sramLen)])
    IN [k \in 1..Len(dsts) |-> MapInfo("SRAM", 0, dsts[k], sramLen)]

\* LoRomAssert with the assertion left out
LoRomAssert_Missing(romLen) == TRUE

\* the assertions a mode makes before it generates its directives; the
\* match arm None is todo!()
LoRomAssert(romLen) == romLen <= \h400000
HiRomAssert(s) == (IF s.some THEN s.len ELSE 0) <= \h2000

Precondition(h, romLen, s) ==
    CASE h = "LoROM" -> LoRomAssert(romLen)
      [] h = "HiROM" -> HiRomAssert(s)
      [] OTHER -> FALSE

ModeInfo(h, romLen, s) ==
    CASE h = "LoROM" ->
            LoRomInfo(romLen)
            \o (IF s.some
                THEN (IF s.len <= \h8000 THEN LoRomSmallSramInfo(s.len)
                                         ELSE LoRomLargeSramInfo(s.len))
                ELSE LoRomMirrorInfo(romLen))
      [] h = "HiROM" ->
            HiRomInfo(romLen) \o (IF s.some THEN HiRomSramInfo(s.len) ELSE <<>>)
      [] OTHER -> <<>>

MapInfoList(h, romLen, wramLen, s) == WramInfo(wramLen) \o ModeInfo(h, romLen, s)

----------------------------------------------------------------------------
(* MemoryMap::map *)

\* SliceOk with unchecked slices
SliceOk_Unchecked(d, romLen, wramLen, s) == TRUE

\* the slice self.<region>[src..src + len] exists (indexing panics otherwise)
SliceOk(d, romLen, wramLen, s) ==
    /\ d.dst + d.len <= MAP_SIZE
    /\ CASE d.region = "ROM"  -> d.src + d.len <= romLen
         [] d.region = "WRAM" -> d.src + d.len <= wramLen
         [] OTHER             -> s.some /\ d.src + d.len <= s.len

Covers(d, a) == d.dst <= a /\ a < d.dst + d.len
Target(d, a) == Some(d.region, d.src + (a - d.dst))

\* MapSlot with the WRAM and SRAM arms installing the write entry only
MapSlot_WritableOnly(slot, d, a, romLen, wramLen, s) ==
    IF ~SliceOk(d, romLen, wramLen, s) THEN [slot EXCEPT !.ok = FALSE]
    ELSE IF ~Covers(d, a) THEN slot
    ELSE IF d.region = "ROM" THEN [slot EXCEPT !.r = Target(d, a)]
    ELSE [slot EXCEPT !.w = Target(d, a)]

\* MapSlot with the ROM arm installing the write entry too
MapSlot_RomWritable(slot, d, a, romLen, wramLen, s) ==
    IF ~SliceOk(d, romLen, wramLen, s) THEN [slot EXCEPT !.ok = FALSE]
    ELSE IF ~Covers(d, a) THEN slot
    ELSE [r |-> Target(d, a), w |-> Target(d, a), ok |-> TRUE]

\* one directive, seen from slot a of the two tables (slot = [r, w, ok]):
\* taking the slices panics (ok = FALSE) when the region is shorter; ROM is
\* installed for read only, WRAM and SRAM for read and write
MapSlot(slot, d, a, romLen, wramLen, s) ==
    IF ~SliceOk(d, romLen, wramLen, s) THEN [slot EXCEPT !.ok = FALSE]
    ELSE IF ~Covers(d, a) THEN slot
    ELSE IF d.region = "ROM" THEN [slot EXCEPT !.r = Target(d, a)]
    ELSE [r |-> Target(d, a), w |-> Target(d, a), ok |-> TRUE]

\* the loop over the directives lo..hi, in order, seen from slot a (the
\* slots are written independently of each other); the run lo..hi is split
\* in two halves applied one after the other, and a panic ends the loop
RECURSIVE MapSlotRange(_, _, _, _, _, _, _, _)
MapSlotRange(slot, a, info, lo, hi, romLen, wramLen, s) ==
    IF lo > hi THEN slot
    ELSE IF lo = hi THEN MapSlot(slot, info[lo], a, romLen, wramLen, s)
    ELSE LET mid == (lo + hi) \div 2
             first == MapSlotRange(slot, a, info, lo, mid, romLen, wramLen, s)
         IN IF ~first.ok THEN first
            ELSE MapSlotRange(first, a, info, mid + 1, hi, romLen, wramLen, s)

\* map applied to the tables t; ok = FALSE when the loop panics (the
\* MemoryMap under construction is then dropped)
Map(t, info, romLen, wramLen, s) ==
    [ok |-> \A k \in 1..Len(info) : SliceOk(info[k], romLen, wramLen, s),
     t |-> [a \in ProbeAddrs |->
              LET slot == MapSlotRange([r |-> t[a].r, w |-> t[a].w, ok |-> TRUE],
                                       a, info, 1, Len(info), romLen, wramLen, s)
              IN [r |-> slot.r, w |-> slot.w]]]

----------------------------------------------------------------------------
(* The cartridges and hints tried *)

ExtraRomLens == {\hC000, \h400000, \h408000}
RomLens == {k * HalfPage : k \in 0..MaxRomChunks} \cup ExtraRomLens
Seeds == {1}
Hints == {"LoROM", "HiROM", "None"}

NoCall == [op |-> "none", addr |-> 0, val |-> 0]

\* a u32 is kept as its two 16-bit halves; no Address24 made yet
U32(h, l) == [hi |-> h, lo |-> l]
NoAddress ==
    [n |-> 0, has |-> FALSE, cur |-> U32(0, 0), op |-> "none",
     lhs |-> U32(0, 0), arg |-> << >>,
     res |-> [ok |-> FALSE, val |-> U32(0, 0), err |-> "none"]]

\* Cartridge::new not called yet
NoCartridge == [res |-> "none", rom |-> << >>, test_flags |-> {}, passed |-> {}]

\* the clients that share the MemoryMap, and a client between two calls
Threads == {"cpu", "coprocessor"}
Idle == [pc |-> "idle", call |-> NoCall, p |-> None, calls |-> 0]

Init ==
    /\ pc = "new"
    /\ cartridge \in [len : RomLens, seed : Seeds]
    /\ hint \in Hints
    /\ table = NoTable
    /\ rom = NoRegion
    /\ wram = NoRegion
    /\ sram = NoSram
    /\ last = NoCall
    /\ th = [t \in Threads |-> Idle]
    /\ hist = << >>
    /\ map_info = << >>
    /\ a24 = NoAddress
    /\ cart_result = NoCartridge

\* MemoryMap::from_cartridge(cartridge, hint)
from_cartridge ==
    /\ pc = "new"
    /\ LET w == new_ram(2 * PAGE_SIZE)
           s == NoSram
           r == NewRom(cartridge)
           t == Map(EmptyTable, MapInfoList(hint, r.len, w.len, s), r.len, w.len, s)
       IN IF Precondition(hint, r.len, s) /\ t.ok
          THEN /\ pc' = "ready"
               /\ table' = t.t
               /\ rom' = r
               /\ wram' = w
               /\ sram' = s
          ELSE /\ pc' = "panic"
               /\ UNCHANGED <<table, rom, wram, sram>>
    /\ UNCHANGED <<cartridge, hint, last, th, hist, map_info, a24, cart_result>>

----------------------------------------------------------------------------
(* MemoryMap::read and MemoryMap::write *)

\* Into<usize> for Address24: self.0 as usize
ToIndex(addr) == addr

\* Address24::high and Address24::get_lower_address16
Bank(addr) == addr \div 65536
Offset(addr) == addr % 65536

readable(a) == table[a].r
writable(a) == table[a].w

\* the debug_assert of read and write: p lies in one of the regions
InRegion(p) ==
    \/ p.region = "WRAM" /\ 0 <= p.cell /\ p.cell < wram.len
    \/ p.region = "ROM" /\ 0 <= p.cell /\ p.cell < rom.len
    \/ p.region = "SRAM" /\ sram.some /\ 0 <= p.cell /\ p.cell < sram.len

\* (*p).load(SeqCst)
Load(p) ==
    CASE p.region = "ROM"  -> rom.cells[p.cell]
      [] p.region = "WRAM" -> wram.cells[p.cell]
      [] OTHER             -> sram.cells[p.cell]

\* ReadValue with 0 for an empty slot
ReadValue_ZeroOnOpenBus(offset) ==
    LET p == table[ToIndex(offset)].r
    IN IF p # None THEN Load(p) ELSE 0

\* what read(offset) returns
ReadValue(offset) ==
    LET p == readable(ToIndex(offset))
    IN IF p # None THEN Load(p) ELSE OpenBus

\* the regions after (*p).store(value, SeqCst)
StoreRom(p, value) ==
    IF p.region = "ROM" THEN [rom EXCEPT !.cells[p.cell] = value] ELSE rom
\* StoreWram with the store lost
StoreWram_Lost(p, value) == wram

StoreWram(p, value) ==
    IF p.region = "WRAM" THEN [wram EXCEPT !.cells[p.cell] = value] ELSE wram
StoreSram(p, value) ==
    IF p.region = "SRAM" THEN [sram EXCEPT !.cells[p.cell] = value] ELSE sram

\* the pointer write(offset, _) stores through, None when it stores nothing
WriteTarget(offset) == writable(ToIndex(offset))

\* the addresses and bytes the clients use
AccessAddrs == {\h000000, \h800000, \h7E0000, \h3F1FFF, \h7F0000,
                \h002000, \h206000, \h008000, \h408000, \h400000}
ByteVals == {\h7F, \hAB}

\* read(offset)
Read(offset) ==
    /\ pc = "ready"
    /\ last' = [op |-> "read", addr |-> offset, val |-> ReadValue(offset)]
    /\ UNCHANGED <<pc, cartridge, hint, table, rom, wram, sram, th, hist,
                   map_info, a24, cart_result>>

\* write(offset, value)
Write(offset, value) ==
    /\ pc = "ready"
    /\ LET p == WriteTarget(offset)
       IN IF p # None
          THEN /\ rom' = StoreRom(p, value)
               /\ wram' = StoreWram(p, value)
               /\ sram' = StoreSram(p, value)
          ELSE UNCHANGED <<rom, wram, sram>>
    /\ last' = [op |-> "write", addr |-> offset, val |-> value]
    /\ UNCHANGED <<pc, cartridge, hint, table, th, hist, map_info, a24, cart_result>>

Next ==
    \/ from_cartridge
    \/ \E a \in AccessAddrs : Read(a)
    \/ \E a \in AccessAddrs, v \in ByteVals : Write(a, v)


Spec == Init /\ [][Next]_vars

----------------------------------------------------------------------------
(* Clients calling read and write concurrently.  A call is two steps: the   *)
(* table lookup (the tables never change after construction), then the     *)
(* SeqCst load or store through the pointer found, which is one atomic     *)
(* access to the AtomicU8 cell.                                            *)

ConcAddrs == {\h000000, \h7E0000, \h008000}
ConcCalls ==
    [op : {"read"}, addr : ConcAddrs, val : {0}]
    \cup [op : {"write"}, addr : ConcAddrs, val : ByteVals]

RECURSIVE CallsBegun(_)
CallsBegun(T) ==
    IF T = {} THEN 0
    ELSE LET t == CHOOSE x \in T : TRUE IN th[t].calls + CallsBegun(T \ {t})

\* the unsafe block up to the `if let Some(p)`: the slot is copied
Lookup(t, c) ==
    /\ pc = "ready"
    /\ th[t].pc = "idle"
    /\ CallsBegun(Threads) < MaxCalls
    /\ th' = [th EXCEPT ![t] =
                 [pc |-> "access",
                  call |-> c,
                  p |-> IF c.op = "read" THEN readable(ToIndex(c.addr))
                                         ELSE WriteTarget(c.addr),
                  calls |-> @.calls + 1]]
    /\ UNCHANGED <<pc, cartridge, hint, table, rom, wram, sram, last, hist,
                   map_info, a24, cart_result>>

\* the load or store (none when the slot was None), and the return
Access(t) ==
    /\ th[t].pc = "access"
    /\ LET c == th[t].call
           p == th[t].p
           ret == IF c.op = "write" THEN c.val
                  ELSE IF p # None THEN Load(p) ELSE OpenBus
       IN /\ IF c.op = "write" /\ p # None
             THEN /\ rom' = StoreRom(p, c.val)
                  /\ wram' = StoreWram(p, c.val)
                  /\ sram' = StoreSram(p, c.val)
             ELSE UNCHANGED <<rom, wram, sram>>
          /\ hist' = IF p # None
                     THEN Append(hist, [t |-> t, op |-> c.op, addr |-> c.addr,
                                        p |-> p, val |-> ret])
                     ELSE hist
          /\ th' = [th EXCEPT ![t] = [@ EXCEPT !.pc = "idle", !.call.val = ret]]
    /\ UNCHANGED <<pc, cartridge, hint, table, last, map_info, a24, cart_result>>

InitConc ==
    /\ Init
    /\ cartridge.len = 2 * HalfPage
    /\ hint # "None"

NextConc ==
    \/ from_cartridge
    \/ \E t \in Threads, c \in ConcCalls : Lookup(t, c)
    \/ \E t \in Threads : Access(t)

SpecConc == InitConc /\ [][NextConc]_vars

----------------------------------------------------------------------------
(* MemoryMap::map on its own: the MemoryMap of from_cartridge before its    *)
(* call of map (regions allocated, both tables empty), handed a directive  *)
(* list whose destinations overlap.                                       *)

\* Number of directives in a list handed to map.
MaxDirectives == 3

MapDirectives ==
    {MapInfo("WRAM", 0, \h000000, \h2000),
     MapInfo("WRAM", \h2000, \h000000, \h8000),
     MapInfo("ROM", 0, \h000000, \h8000),
     MapInfo("ROM", \h8000, \h006000, \h8000),
     MapInfo("ROM", 0, \h008000, \h8000),
     MapInfo("SRAM", 0, \h006000, \h2000)}
MapLists == UNION {[1..n -> MapDirectives] : n \in 0..MaxDirectives}
MapAddrs == {\h000000, \h006000}
MapVals == {\hAB}

\* from_cartridge up to the construction of memory_map
Allocate ==
    /\ pc = "new"
    /\ pc' = "allocated"
    /\ table' = EmptyTable
    /\ rom' = NewRom(cartridge)
    /\ wram' = new_ram(2 * PAGE_SIZE)
    /\ sram' = NoSram
    /\ UNCHANGED <<cartridge, hint, last, th, hist, map_info, a24, cart_result>>

\* memory_map.map(&l); a panic drops the MemoryMap
MapCall(l) ==
    /\ pc = "allocated"
    /\ map_info' = l
    /\ LET t == Map(table, l, rom.len, wram.len, sram)
       IN IF t.ok
          THEN /\ pc' = "ready"
               /\ table' = t.t
               /\ UNCHANGED <<rom, wram, sram>>
          ELSE /\ pc' = "panic"
               /\ table' = NoTable
               /\ rom' = NoRegion
               /\ wram' = NoRegion
               /\ sram' = NoSram
    /\ UNCHANGED <<cartridge, hint, last, th, hist, a24, cart_result>>

InitMap ==
    /\ Init
    /\ cartridge.len \in {HalfPage, 2 * HalfPage}
    /\ hint = "LoROM"

NextMap ==
    \/ Allocate
    \/ \E l \in MapLists : MapCall(l)
    \/ \E a \in MapAddrs : Read(a)
    \/ \E a \in MapAddrs, v \in MapVals : Write(a, v)

SpecMap == InitMap /\ [][NextMap]_vars

----------------------------------------------------------------------------
(* address: Address16(u16) and Address24(u32).  A u32 is kept as its two   *)
(* 16-bit halves [hi, lo]; an integer of any of the source types of        *)
(* try_from is kept as [ty, neg, mag], mag its magnitude in 16-bit limbs,  *)
(* least significant first.                                               *)

\* Number of Address24 operations applied one after the other.
MaxAddrOps == 3

RECURSIVE BitAndN(_, _, _)
BitAndN(x, y, bits) ==
    IF bits = 0 THEN 0
    ELSE (x % 2) * (y % 2) + 2 * BitAndN(x \div 2, y \div 2, bits - 1)

\* u32 & u32, u32::wrapping_add, u32::wrapping_sub, u32 < u32
U32And(x, y) == U32(BitAndN(x.hi, y.hi, 16), BitAndN(x.lo, y.lo, 16))
wrapping_add(x, y) ==
    LET l == x.lo + y.lo
    IN U32((x.hi + y.hi + l \div 65536) % 65536, l % 65536)
wrapping_sub(x, y) ==
    LET l == x.lo - y.lo
        borrow == IF l < 0 THEN 1 ELSE 0
    IN U32((x.hi - y.hi - borrow + 65536) % 65536, (l + 65536) % 65536)
U32Less(x, y) == x.hi < y.hi \/ (x.hi = y.hi /\ x.lo < y.lo)

\* the literals 0xFFFFFF, 0xFF0000 and 1 << 24
Mask24 == U32(\h00FF, \hFFFF)
BankMask == U32(\h00FF, \h0000)
Bit24 == U32(\h0100, \h0000)

Ok(v) == [ok |-> TRUE, val |-> v, err |-> "none"]
Err == [ok |-> FALSE, val |-> U32(0, 0), err |-> "TryFromIntError"]

\* src.try_into() to u32: fails for a negative source and for one that
\* does not fit 32 bits
TryIntoU32(src) ==
    IF \/ src.neg
       \/ \E k \in 3..Len(src.mag) : src.mag[k] # 0
    THEN Err
    ELSE Ok(U32(IF Len(src.mag) >= 2 THEN src.mag[2] ELSE 0, src.mag[1]))

\* Address24::new
Address24_new(address) == U32And(address, Mask24)

\* From<u8>, From<u16>, From<Address16> for Address24: Self(src.into())
Address24_from(src) == U32(0, src)

\* Address24_try_from with the range check left out
Address24_try_from_Unchecked(src) == TryIntoU32(src)

\* TryFrom<i8 .. u128> for Address24
Address24_try_from(src) ==
    LET ad == TryIntoU32(src)
    IN IF ~ad.ok THEN Err
       ELSE IF U32Less(ad.val, Bit24) THEN Ok(ad.val)
       ELSE Err

\* Address16 + Address16 (wrapping_add on u16)
Address16_add(a, b) == (a + b) % 65536

\* Address24::get_lower_address16: self.0 as u16
Address24_lower16(a) == a.lo

\* Address24 + Address24
Address24_add(a, b) == U32And(wrapping_add(a, b), Mask24)

\* Address24_sub with the mask left out
Address24_sub_Unmasked(a, b) == wrapping_sub(a, b)

\* Address24 - Address24
Address24_sub(a, b) == U32And(wrapping_sub(a, b), Mask24)

\* Address24 & u32
Address24_bitand(a, rhs) == U32And(a, rhs)

\* Address24 + Address16: the bank is kept, the low 16 bits wrap
Address24_add16(a, rhs) ==
    LET bank == U32And(a, BankMask)
    IN U32(bank.hi, Address16_add(Address24_lower16(a), rhs))

\* Into<usize> for Address24: self.0 as usize
Address24_into_usize(a) == ToIndex(a.hi * 65536 + a.lo)

\* the arguments tried
Wide(ty, neg, mag) == [ty |-> ty, neg |-> neg, mag |-> mag]
U32Vals ==
    {U32(0, 0), U32(0, 1), U32(\h007E, \hFF00), U32(\h00FF, \hFFFF),
     U32(\h0100, 0), U32(\h1234, \h5678), U32(\hFFFF, \hFFFF)}
FromVals == {\h00, \hFF, \h1234, \hFFFF}
TrySrcs ==
    {Wide("i8", TRUE, <<\h80>>), Wide("i8", FALSE, <<\h7F>>),
     Wide("i16", TRUE, <<1>>), Wide("i16", FALSE, <<\h7FFF>>),
     Wide("i32", TRUE, <<\hFFFF, \h00FF>>), Wide("i32", FALSE, <<\hFFFF, \h00FF>>),
     Wide("i32", FALSE, <<0, \h0100>>),
     Wide("u32", FALSE, <<\hFFFF, \h00FF>>), Wide("u32", FALSE, <<0, \h0100>>),
     Wide("u32", FALSE, <<\hFFFF, \hFFFF>>),
     Wide("i64", TRUE, <<1, 0, 0, 0>>), Wide("i64", FALSE, <<0, 0, 1, 0>>),
     Wide("u64", FALSE, <<\h3456, \h0012, 0, 0>>),
     Wide("u64", FALSE, <<\h3456, \h0012, 0, \h8000>>),
     Wide("i128", TRUE, <<0, 0, 0, 0, 0, 0, 0, \h8000>>),
     Wide("u128", FALSE, <<0, 0, 0, 0, 1, 0, 0, 0>>),
     Wide("u128", FALSE, <<0, 0, 0, 0, 0, 0, 0, 0>>)}
RhsAddrs == {Address24_new(x) : x \in U32Vals}
RhsMasks == {U32(\hFFFF, \hFFFF), U32(\h0055, \h5555), U32(\hFF00, 0)}
RhsAddr16s == {\h0001, \h0200, \hFFFF}

\* the operation op(lhs, arg) has returned res; an Ok result is the
\* Address24 in hand from now on
Yield(op, lhs, arg, res) ==
    /\ a24.n < MaxAddrOps
    /\ a24' = [n |-> a24.n + 1,
               has |-> a24.has \/ res.ok,
               cur |-> IF res.ok THEN res.val ELSE a24.cur,
               op |-> op, lhs |-> lhs, arg |-> arg, res |-> res]
    /\ UNCHANGED <<pc, cartridge, hint, table, rom, wram, sram, last, th, hist,
                   map_info, cart_result>>

A24New(x) == Yield("new", U32(0, 0), x, Ok(Address24_new(x)))
A24From(x) == Yield("from", U32(0, 0), x, Ok(Address24_from(x)))
A24TryFrom(src) == Yield("try_from", U32(0, 0), src, Address24_try_from(src))
A24Add(b) == a24.has /\ Yield("add", a24.cur, b, Ok(Address24_add(a24.cur, b)))
A24Sub(b) == a24.has /\ Yield("sub", a24.cur, b, Ok(Address24_sub(a24.cur, b)))
A24BitAnd(m) == a24.has /\ Yield("bitand", a24.cur, m, Ok(Address24_bitand(a24.cur, m)))
A24Add16(r) == a24.has /\ Yield("add16", a24.cur, r, Ok(Address24_add16(a24.cur, r)))

InitAddr ==
    /\ Init
    /\ cartridge.len = 0
    /\ hint = "None"

NextAddr ==
    \/ \E x \in U32Vals : A24New(x)
    \/ \E x \in FromVals : A24From(x)
    \/ \E src \in TrySrcs : A24TryFrom(src)
    \/ \E b \in RhsAddrs \cup {a24.cur} : A24Add(b)
    \/ \E b \in RhsAddrs \cup {a24.cur} : A24Sub(b)
    \/ \E m \in RhsMasks : A24BitAnd(m)
    \/ \E r \in RhsAddr16s : A24Add16(r)

SpecAddr == InitAddr /\ [][NextAddr]_vars

----------------------------------------------------------------------------
(* cartridge: Cartridge::new and Cartridge::rom_test.  A ROM image is kept  *)
(* as [len, fill, hdr]: len bytes, all equal to fill except those at the   *)
(* offsets of DOMAIN hdr.                                                  *)

TestFlags ==
    {"SIZE", "CHECKSUM_LO", "CHECKSUM_HI", "ROM_SPEED_AND_MAP_LO",
     "ROM_SPEED_AND_MAP_HI", "CHIPSET_LO", "CHIPSET_HI", "COUNTRY_LO", "COUNTRY_HI"}

Image(len, fill, hdr) == [len |-> len, fill |-> fill, hdr |-> hdr]

\* rom.get(offset)
HasByte(r, offset) == offset < r.len
ByteAt(r, offset) == IF offset \in DOMAIN r.hdr THEN r.hdr[offset] ELSE r.fill

\* read_u16(offset), where both bytes exist
HasU16(r, offset) == HasByte(r, offset) /\ HasByte(r, offset + 1)
ReadU16(r, offset) == ByteAt(r, offset + 1) * 256 + ByteAt(r, offset)

\* rom.iter().fold(0u16, |r, &b| r.wrapping_add(b as u16))
RECURSIVE SumOver(_, _)
SumOver(r, S) ==
    IF S = {} THEN 0
    ELSE LET i == CHOOSE x \in S : TRUE IN r.hdr[i] + SumOver(r, S \ {i})
ByteSum(r) ==
    LET inside == {i \in DOMAIN r.hdr : i < r.len}
    IN (r.fill * (r.len - Cardinality(inside)) + SumOver(r, inside)) % 65536

test_checksum(r, offset) ==
    /\ HasU16(r, offset) /\ ReadU16(r, offset) = 65535 - ByteSum(r)
    /\ HasU16(r, offset + 2) /\ ReadU16(r, offset + 2) = ByteSum(r)

test_rom_makeup(r, offset) ==
    /\ HasByte(r, offset)
    /\ ByteAt(r, offset) \div 32 = 1
    /\ ByteAt(r, offset) % 16 \in {0, 1, 2, 3, 5, 10}

test_chipset(r, offset) ==
    /\ HasByte(r, offset)
    /\ ByteAt(r, offset) \in
          (\h00..\h05) \cup (\h13..\h15)
          \cup {\h1A, \h25, \h32, \h34, \h35, \h43, \h45, \h55,
                \hE3, \hE5, \hF3, \hF5, \hF6, \hF9}

test_country(r, offset) == HasByte(r, offset) /\ ByteAt(r, offset) <= \h14

Flag(cond, f) == IF cond THEN {f} ELSE {}

rom_test(r) ==
    Flag(r.len % \h8000 = 0 /\ r.len > 0, "SIZE")
    \cup Flag(test_checksum(r, \h7FDC), "CHECKSUM_LO")
    \cup Flag(test_checksum(r, \hFFDC), "CHECKSUM_HI")
    \cup Flag(test_rom_makeup(r, \h7FD5), "ROM_SPEED_AND_MAP_LO")
    \cup Flag(test_rom_makeup(r, \hFFD5), "ROM_SPEED_AND_MAP_HI")
    \cup Flag(test_chipset(r, \h7FD6), "CHIPSET_LO")
    \cup Flag(test_chipset(r, \hFFD6), "CHIPSET_HI")
    \cup Flag(test_country(r, \h7FD9), "COUNTRY_LO")
    \cup Flag(test_country(r, \hFFD9), "COUNTRY_HI")

\* TestFlags::contains: all the flags of other are set in self
contains(self, other) == other \subseteq self

\* the images tried: r with the complement and the checksum of its bytes
\* stored at offset .. offset + 3
Stamped(r, offset) ==
    LET at == offset..(offset + 3)
        blank == [r EXCEPT !.hdr = [i \in DOMAIN r.hdr \cup at |->
                                       IF i \in at THEN 0 ELSE r.hdr[i]]]
        sum == (ByteSum(blank) + 2 * 255) % 65536
        compl == 65535 - sum
    IN [r EXCEPT !.hdr = [i \in DOMAIN r.hdr \cup at |->
                             CASE i = offset     -> compl % 256
                               [] i = offset + 1 -> compl \div 256
                               [] i = offset + 2 -> sum % 256
                               [] i = offset + 3 -> sum \div 256
                               [] OTHER          -> r.hdr[i]]]
LoHeader == (\h7FD5 :> \h20) @@ (\h7FD6 :> \h02) @@ (\h7FD9 :> \h01)
HiHeader == (\hFFD5 :> \h21) @@ (\hFFD6 :> \h00) @@ (\hFFD9 :> \h14)
Images ==
    {Image(0, 0, << >>),
     Image(100, \h55, << >>),
     Image(\h8000, \h00, << >>),
     Image(\h8000, \hFF, << >>),
     Image(\h7FDA, \hFF, (\h7FD9 :> \h00)),
     Stamped(Image(\h8000, \hFF, LoHeader), \h7FDC),
     Stamped(Image(\h10000, \hFF, HiHeader), \hFFDC),
     Stamped(Image(\h10000, \h00, LoHeader @@ HiHeader), \h7FDC)}

\* Cartridge::new(rom, test_flags)
Cartridge_new(r, test_flags) ==
    /\ cart_result.res = "none"
    /\ LET passed == rom_test(r)
       IN cart_result' =
             [res |-> IF ~contains(test_flags, passed)
                      THEN "NotProbableCartridge" ELSE "Ok",
              rom |-> r, test_flags |-> test_flags, passed |-> passed]
    /\ UNCHANGED <<pc, cartridge, hint, table, rom, wram, sram, last, th, hist,
                   map_info, a24>>

InitCart ==
    /\ Init
    /\ cartridge.len = 0
    /\ hint = "None"

NextCart == \E r \in Images, f \in SUBSET TestFlags : Cartridge_new(r, f)

SpecCart == InitCart /\ [][NextCart]_vars

----------------------------------------------------------------------------
(* Properties *)

Ready == pc = "ready"
RomBanksA(b) == b \in (\h00..\h7D) \cup (\h80..\hFF)
WramBanks(b) == b \in (\h00..\h3F) \cup (\h80..\hBF)
Regions == <<rom, wram, sram>>

\* C1 Round trip: a write(a, v) at an address whose write-table entry is
\* non-empty, directly followed by read(a), makes the read return v.
C1_RoundTrip ==
    [][(/\ last.op = "write"
        /\ WriteTarget(last.addr) # None
        /\ last'.op = "read"
        /\ last'.addr = last.addr) => last'.val = last.val]_vars

\* C1 witness: a read at a writable address has returned a byte that only a
\* write can have put there (the RAM cells start at 0).
C1_Witness ==
    /\ Ready
    /\ last.op = "read"
    /\ WriteTarget(last.addr) # None
    /\ last.val \in ByteVals

C3_HiRomNeverFails == hint = "HiROM" => pc # "panic"

\* C4 as stated (its scenario): in Mode B with a 64 KiB ROM, after
\* write(0x206000, v) a read of 0x206000 returns v (save RAM backs
\* 0x6000-0x7FFF of banks 0x20-0x3F), and 0x008000 reads ROM byte 0x8000.
C4_HiRomSram ==
    (Ready /\ hint = "HiROM" /\ rom.len = \h10000) =>
        /\ ReadValue(\h008000) = ImageByte(cartridge.seed, \h8000)
        /\ (last.op = "write" /\ last.addr = \h206000) =>
               /\ WriteTarget(\h206000) = Some("SRAM", 0)
               /\ ReadValue(\h206000) = last.val

\* the WRAM cell the WRAM rules make address a an alias of, -1 if none
WramAlias(a) ==
    IF WramBanks(Bank(a)) /\ Offset(a) < \h2000 THEN Offset(a)
    ELSE IF \h7E0000 <= a /\ a < \h7E0000 + 2 * PAGE_SIZE THEN a - \h7E0000
    ELSE -1

\* C5 WRAM mirroring: in both modes, b:k (k < 0x2000, b in 0x00-0x3F or
\* 0x80-0xBF) and 0x7E0000 + j (j < 0x20000) resolve, for read and write, to
\* WRAM cell k resp. j; after a write through one alias every alias of the
\* same cell reads the written byte.
C5_WramMirroring ==
    Ready =>
        /\ \A a \in ProbeAddrs :
              WramAlias(a) >= 0 =>
                  /\ readable(a) = Some("WRAM", WramAlias(a))
                  /\ writable(a) = Some("WRAM", WramAlias(a))
        /\ (last.op = "write" /\ WramAlias(last.addr) >= 0) =>
              \A a \in ProbeAddrs :
                  WramAlias(a) = WramAlias(last.addr) => ReadValue(a) = last.val

\* C5 witness: write(0x7E0000, 0xAB) has been made and 0x000000 and 0x800000
\* read 0xAB.
C5_Witness ==
    /\ Ready
    /\ last = [op |-> "write", addr |-> \h7E0000, val |-> \hAB]
    /\ ReadValue(\h000000) = \hAB
    /\ ReadValue(\h800000) = \hAB

\* C6 Read-only ROM: no write-table entry references a ROM cell, the ROM
\* region always holds the cartridge image, every ROM-backed address reads
\* its byte of the image, and a write at a ROM-backed address changes no
\* byte of any region.
C6_RomInv ==
    Ready =>
        /\ rom = NewRom(cartridge)
        /\ \A a \in ProbeAddrs :
              /\ writable(a).region # "ROM"
              /\ readable(a).region = "ROM" =>
                    ReadValue(a) = ImageByte(cartridge.seed, readable(a).cell)

C6_RomFrame ==
    (Ready /\ last'.op = "write" /\ readable(last'.addr).region = "ROM")
        => Regions' = Regions

C6_ReadOnlyRom == []C6_RomInv /\ [][C6_RomFrame]_vars

\* C6 witness: a write has been made at a ROM-backed address.
C6_Witness ==
    /\ Ready
    /\ last.op = "write"
    /\ readable(last.addr).region = "ROM"

\* C7 Open bus: a read at an address whose read-table entry is empty returns
\* 0x55, and a write at an address whose write-table entry is empty changes
\* no byte of ROM, WRAM or save RAM.
C7_ReadInv ==
    (Ready /\ last.op = "read" /\ readable(last.addr) = None) => last.val = \h55

C7_WriteFrame ==
    (Ready /\ last'.op = "write" /\ writable(last'.addr) = None)
        => Regions' = Regions

C7_OpenBus == []C7_ReadInv /\ [][C7_WriteFrame]_vars

\* C7 witness: a read at an unbacked address has returned 0x55.
C7_Witness ==
    /\ Ready
    /\ last.op = "read"
    /\ readable(last.addr) = None
    /\ last.val = \h55

\* C8 Totality: every non-empty entry of either table references a cell
\* inside ROM, WRAM or save RAM, and a read returns a byte.
C8_Totality ==
    Ready =>
        /\ \A a \in ProbeAddrs :
              /\ readable(a) # None => InRegion(readable(a))
              /\ writable(a) # None => InRegion(writable(a))
        /\ last.op = "read" => last.val \in 0..255

\* C8 witness: an engine built from the largest Mode A image, whose last
\* ROM chunk is mapped, has served a read.
C8_Witness ==
    /\ Ready
    /\ rom.len = \h400000
    /\ readable(\hFFFFFF) = Some("ROM", \h3FFFFF)
    /\ last.op = "read"

\* C9 Fatal preconditions: Mode A with a ROM longer than 4 MiB, and a
\* missing mode hint, never yield a MemoryMap: construction aborts and no
\* table is handed out.
C9_FatalPreconditions ==
    (hint = "None" \/ (hint = "LoROM" /\ cartridge.len > \h400000)) =>
        /\ pc # "ready"
        /\ table = NoTable

\* C9 witness: construction in Mode A with a ROM longer than 4 MiB has
\* panicked.
C9_Witness ==
    /\ pc = "panic"
    /\ hint = "LoROM"
    /\ cartridge.len > \h400000


\* the byte a cell holds when the MemoryMap is handed out
InitialByte(p) == IF p.region = "ROM" THEN ImageByte(cartridge.seed, p.cell) ELSE 0

\* the stores to cell p among the first n accesses, and the byte the last of
\* them (or construction) left in p
StoresTo(p, n) == {j \in 1..n : hist[j].op = "write" /\ hist[j].p = p}
ByteAfter(p, n) ==
    IF StoresTo(p, n) = {} THEN InitialByte(p)
    ELSE hist[CHOOSE j \in StoresTo(p, n) : \A k \in StoresTo(p, n) : k <= j].val

\* C10 Per-cell consistency: the loads and stores of concurrent calls to
\* one cell (through the same address or mirrors) are totally ordered, each
\* load returns the byte of the latest store before it (the initial byte if
\* none), the cell ends up holding the byte of the last store, and a read
\* returns to its caller the byte its load saw.
C10_PerCellOrder ==
    Ready =>
        /\ \A i \in DOMAIN hist :
              hist[i].op = "read" => hist[i].val = ByteAfter(hist[i].p, i - 1)
        /\ \A i \in DOMAIN hist : Load(hist[i].p) = ByteAfter(hist[i].p, Len(hist))
        /\ \A t \in Threads :
              (th[t].pc = "idle" /\ th[t].call.op = "read" /\ th[t].p # None) =>
                  \E i \in DOMAIN hist :
                      /\ hist[i].t = t /\ hist[i].op = "read"
                      /\ hist[i].val = th[t].call.val

\* C10 witness: one client has stored to a cell while the other was between
\* its lookup and its load of the same cell through a mirror address, and
\* the load then returned the stored byte.
C10_Witness ==
    /\ Ready
    /\ Len(hist) = 2
    /\ hist[1].op = "write" /\ hist[2].op = "read"
    /\ hist[1].t # hist[2].t
    /\ hist[1].p = hist[2].p /\ hist[1].addr # hist[2].addr
    /\ hist[2].val = hist[1].val
    /\ th[hist[2].t].calls = 1 /\ th[hist[1].t].calls = 1

\* C11 One cell per address: after construction in either mode, every
\* address whose write-table entry is non-empty has a non-empty read-table
\* entry that references the same cell of the same region.
C11_OneCellPerAddress ==
    Ready =>
        \A a \in ProbeAddrs :
            writable(a) # None =>
                /\ readable(a) # None
                /\ readable(a) = writable(a)

\* C11 witness: a MemoryMap built from a 4 MiB image (ROM fills banks up to
\* 0x7D, next to the WRAM banks 0x7E-0x7F), in which a written address
\* shares its WRAM cell with a mirror and reads back through the same cell.
C11_Witness ==
    /\ Ready /\ rom.len = \h400000
    /\ last.op = "write" /\ last.addr = \h800000
    /\ writable(\h800000) = Some("WRAM", 0)
    /\ readable(\h7E0000) = writable(\h800000)
    /\ readable(\h7D0000) = Some("ROM", \h3D0000)
    /\ writable(\h7D0000) = None
    /\ wram.cells[0] = last.val

\* the numeric value of x is below 2^24
A24InRange(x) == x.hi < \h0100

\* the source integer is negative or at least 2^24
SrcOutOfRange(src) ==
    \/ src.neg
    \/ \E k \in 2..Len(src.mag) : IF k = 2 THEN src.mag[k] >= \h0100
                                           ELSE src.mag[k] # 0

\* C12 Address24 range: every Address24 obtained through the constructors
\* and operators holds a value in [0, 2^24) and converts to a valid index of
\* the 16 MiB tables; new masks to the low 24 bits, the From conversions keep
\* the value, try_from returns TryFromIntError exactly for a source that is
\* negative or >= 2^24 and Ok with the same value otherwise, and +, - and &
\* never produce a value >= 2^24.
C12_Address24Range ==
    /\ a24.has =>
          /\ A24InRange(a24.cur)
          /\ Address24_into_usize(a24.cur) \in 0..(MAP_SIZE - 1)
    /\ a24.op = "new" =>
          /\ a24.res.ok
          /\ a24.res.val = U32(a24.arg.hi % 256, a24.arg.lo)
    /\ a24.op = "from" =>
          /\ a24.res.ok
          /\ Address24_into_usize(a24.res.val) = a24.arg
    /\ a24.op = "try_from" =>
          IF SrcOutOfRange(a24.arg)
          THEN ~a24.res.ok /\ a24.res.err = "TryFromIntError"
          ELSE /\ a24.res.ok
               /\ a24.res.val.lo = a24.arg.mag[1]
               /\ a24.res.val.hi = (IF Len(a24.arg.mag) >= 2 THEN a24.arg.mag[2] ELSE 0)
    /\ a24.op \in {"add", "sub", "bitand", "add16"} =>
          a24.res.ok /\ A24InRange(a24.res.val)

\* C12 witness: 0x000000 - 0x000001 has wrapped to 0xFFFFFF.
C12_Witness ==
    /\ a24.op = "sub"
    /\ a24.lhs = U32(0, 0)
    /\ a24.arg = U32(0, 1)
    /\ a24.cur = U32(\h00FF, \hFFFF)

\* the directives of l that cover address a, and the last of them
Covering(l, a) == {k \in 1..Len(l) : Covers(l[k], a)}
LastCovering(l, a) == l[CHOOSE k \in Covering(l, a) : \A j \in Covering(l, a) : j <= k]

C14_Acceptance ==
    cart_result.res # "none" =>
        /\ cart_result.passed = rom_test(cart_result.rom)
        /\ cart_result.res = "Ok" <=> cart_result.test_flags \subseteq cart_result.passed
        /\ cart_result.res \in {"Ok", "NotProbableCartridge"}
        /\ cart_result.test_flags = {} => cart_result.res = "Ok"

====
